---- MODULE Spec2Model ----
(***************************************************************************)
(* Model of src/main.py: the Streamlit "Web Content Analyzer".  One run of *)
(* the script after the Analyze button is clicked: scrape_content,         *)
(* the text splitter, setup_groq, the per-chunk chain.invoke loop of       *)
(* analyze_url, and the main execution block that renders the result.      *)
(*                                                                         *)
(* Python strings are sequences of one-character tokens.  Characters that  *)
(* are not ASCII are written by code point: "U+2022" is the bullet, and    *)
(* "U+00E2", "U+20AC", "U+00A2" are the three characters the source file   *)
(* actually holds inside lstrip('...') on line 103.                        *)
(*                                                                         *)
(* Streamlit re-executes the script from the top on every interaction and  *)
(* the script keeps nothing in st.session_state, so every run starts from  *)
(* the same fresh state: a behaviour of the model is one run.              *)
(***************************************************************************)
EXTENDS Integers, Sequences, FiniteSets, TLC

VARIABLES url, groq_api_key, pc, content, splits, all_summaries, i,
          summaries, progress, events, calls, sections, raw_text, download

vars == <<url, groq_api_key, pc, content, splits, all_summaries, i,
          summaries, progress, events, calls, sections, raw_text, download>>

(***************************************************************************)
(* Bounds of the model.                                                    *)
(***************************************************************************)
\* longest text soup.get_text() returns in the model
MaxRaw == 6
\* longest summary text handed to format_bullet_points in SpecFmt
MaxSummaryLen == 3

(***************************************************************************)
(* Python values.                                                          *)
(***************************************************************************)
\* None and a value, as one record shape (TLC compares like with like)
None == [isNone |-> TRUE, v |-> <<>>]
Some(x) == [isNone |-> FALSE, v |-> x]
\* Python truthiness of an optional string or list: None, "" and [] are falsy
Truthy(o) == ~o.isNone /\ o.v # <<>>

\* str.strip() / str.lstrip() with no argument strip these
Whitespace == {" ", "\n"}

Strings(Alphabet, n) == UNION {[1..k -> Alphabet] : k \in 0..n}

RECURSIVE lstrip(_, _)
\* str.lstrip(chars): drop leading characters while they are in chars
lstrip(s, chars) ==
    IF s # <<>> /\ Head(s) \in chars THEN lstrip(Tail(s), chars) ELSE s

RECURSIVE rstrip(_, _)
rstrip(s, chars) ==
    IF s # <<>> /\ s[Len(s)] \in chars
    THEN rstrip(SubSeq(s, 1, Len(s) - 1), chars) ELSE s

\* str.strip()
strip(s) == rstrip(lstrip(s, Whitespace), Whitespace)

\* s[n:]
Drop(s, n) == SubSeq(s, n + 1, Len(s))

StartsWith(s, sep) == Len(s) >= Len(sep) /\ SubSeq(s, 1, Len(sep)) = sep

RECURSIVE SplitFrom(_, _, _)
SplitFrom(s, sep, cur) ==
    IF s = <<>> THEN <<cur>>
    ELSE IF StartsWith(s, sep)
         THEN <<cur>> \o SplitFrom(Drop(s, Len(sep)), sep, <<>>)
         ELSE SplitFrom(Tail(s), sep, Append(cur, Head(s)))

\* str.split(sep) for a non-empty sep: leftmost non-overlapping occurrences
split(s, sep) == SplitFrom(s, sep, <<>>)

\* str.splitlines(): like split("\n"), without the empty piece after a final
\* newline, and [] for ""
splitlines(s) ==
    LET p == split(s, <<"\n">>)
    IN IF p[Len(p)] = <<>> THEN SubSeq(p, 1, Len(p) - 1) ELSE p

RECURSIVE join(_, _)
\* sep.join(parts)
join(sep, parts) ==
    IF parts = <<>> THEN <<>>
    ELSE IF Len(parts) = 1 THEN parts[1]
    ELSE parts[1] \o sep \o join(sep, Tail(parts))

RECURSIVE Concat(_)
\* the concatenation of a list of lists
Concat(ls) == IF ls = <<>> THEN <<>> ELSE ls[1] \o Concat(Tail(ls))

\* (x.strip() for x in list)
StripEach(list) == [k \in 1..Len(list) |-> strip(list[k])]

RECURSIVE NonEmpty(_)
\* [x for x in s if x]
NonEmpty(s) ==
    IF s = <<>> THEN <<>>
    ELSE IF s[1] = <<>> THEN NonEmpty(Tail(s))
    ELSE <<s[1]>> \o NonEmpty(Tail(s))

(***************************************************************************)
(* scrape_content, lines 82-85: the clean-up of soup.get_text()'s result.  *)
(***************************************************************************)
\* the phrases line.split("  ") of every line, in order
SplitDoubleSpace(lines) ==
    Concat([k \in 1..Len(lines) |-> split(lines[k], <<" ", " ">>)])

clean_text(text) ==
    LET lines == StripEach(splitlines(text))
        chunks == StripEach(SplitDoubleSpace(lines))
    IN join(<<"\n">>, NonEmpty(chunks))

(***************************************************************************)
(* format_bullet_points: the text of each bullet-point block, in order.    *)
(***************************************************************************)
\* the characters of the string literal on line 103 of the source file
BulletArg == {"U+00E2", "U+20AC", "U+00A2"}

\* line 100 and line 103: the leading-glyph strip applied to one line
StripBulletLine(line) ==
    strip(lstrip(lstrip(lstrip(strip(line), BulletArg), {"-"}), {"*"}))

RECURSIVE FormatLines(_)
FormatLines(lines) ==
    IF lines = <<>> THEN <<>>
    ELSE IF strip(lines[1]) # <<>>
         THEN <<StripBulletLine(lines[1])>> \o FormatLines(Tail(lines))
         ELSE FormatLines(Tail(lines))

format_bullet_points(text) == FormatLines(split(strip(text), <<"\n">>))

(***************************************************************************)
(* The text splitter called on lines 125-130.  RecursiveCharacterText-     *)
(* Splitter is library code: the repository fixes only its parameters.     *)
(* Its behaviour is modelled after section 4.3 of the specification        *)
(* (separators tried in priority order with recursive fall-back to a hard  *)
(* character cut, pieces merged greedily up to the maximum size, the tail  *)
(* of a chunk carried over as overlap), in the shape of the library's      *)
(* _split_text / _merge_splits with keep_separator and strip_whitespace    *)
(* at their defaults.                                                      *)
(***************************************************************************)
\* chunk_size=2000 and chunk_overlap=200 of lines 126-127, scaled down so
\* that texts of MaxRaw characters need several chunks (the overlap stays
\* below the size, as in the source)
chunk_size == 3
chunk_overlap == 1

\* the separator list without its last entry, the hard character cut
SeparatorsWithoutHardCut == << <<"\n", "\n">>, <<"\n">>, <<".", " ">>, <<" ">> >>

\* separators=["\n\n", "\n", ". ", " ", ""] of line 128
separators == << <<"\n", "\n">>, <<"\n">>, <<".", " ">>, <<" ">>, <<>> >>

Contains(s, sep) == \E k \in 0..(Len(s) - Len(sep)) : StartsWith(Drop(s, k), sep)

\* the first separator that is "" or occurs in the text; 0 when there is none
FirstSeparator(text, seps) ==
    LET hits == {k \in 1..Len(seps) : seps[k] = <<>> \/ Contains(text, seps[k])}
    IN IF hits = {} THEN 0 ELSE CHOOSE k \in hits : \A h \in hits : k <= h

\* the pieces of the text, each later piece keeping the separator in front
\* of it; the characters of the text when the separator is ""
split_text_with_regex(text, separator) ==
    LET p == split(text, separator)
    IN IF separator = <<>>
       THEN [k \in 1..Len(text) |-> <<text[k]>>]
       ELSE NonEmpty([k \in 1..Len(p) |->
                         IF k = 1 THEN p[1] ELSE separator \o p[k]])

\* separator.join(docs).strip(), or None when that is empty
join_docs(docs, separator) ==
    LET text == strip(join(separator, docs))
    IN IF text = <<>> THEN None ELSE Some(text)

SepLen(current_doc, separator, least) ==
    IF Len(current_doc) > least THEN Len(separator) ELSE 0

RECURSIVE PopOverlap(_, _, _, _)
\* the while loop of _merge_splits: drop pieces from the front of
\* current_doc until what is kept fits the overlap and leaves room for d
PopOverlap(current_doc, total, d, separator) ==
    IF total > chunk_overlap
       \/ (total + Len(d) + SepLen(current_doc, separator, 0) > chunk_size
           /\ total > 0)
    THEN PopOverlap(Tail(current_doc),
                    total - (Len(current_doc[1])
                             + SepLen(current_doc, separator, 1)),
                    d, separator)
    ELSE [current_doc |-> current_doc, total |-> total]

RECURSIVE MergeLoop(_, _, _, _, _)
MergeLoop(pieces, separator, docs, current_doc, total) ==
    IF pieces = <<>>
    THEN LET doc == join_docs(current_doc, separator)
         IN IF doc.isNone THEN docs ELSE Append(docs, doc.v)
    ELSE
      LET d == pieces[1]
          over == total + Len(d) + SepLen(current_doc, separator, 0)
                      > chunk_size
          flush == over /\ Len(current_doc) > 0
          doc == join_docs(current_doc, separator)
          docs1 == IF flush /\ ~doc.isNone THEN Append(docs, doc.v) ELSE docs
          kept == IF flush THEN PopOverlap(current_doc, total, d, separator)
                  ELSE [current_doc |-> current_doc, total |-> total]
          cur1 == Append(kept.current_doc, d)
      IN MergeLoop(Tail(pieces), separator, docs1, cur1,
                   kept.total + Len(d) + SepLen(cur1, separator, 1))

merge_splits(pieces, separator) == MergeLoop(pieces, separator, <<>>, <<>>, 0)

RECURSIVE split_text(_, _)
RECURSIVE SplitLoop(_, _, _, _)
\* the loop of _split_text over the pieces: pieces shorter than chunk_size
\* are collected and merged, a longer one is split with the separators left
SplitLoop(pieces, new_separators, good_splits, final_chunks) ==
    IF pieces = <<>>
    THEN IF good_splits # <<>>
         THEN final_chunks \o merge_splits(good_splits, <<>>)
         ELSE final_chunks
    ELSE
      LET s == pieces[1]
          flushed == IF good_splits # <<>>
                     THEN final_chunks \o merge_splits(good_splits, <<>>)
                     ELSE final_chunks
      IN IF Len(s) < chunk_size
         THEN SplitLoop(Tail(pieces), new_separators,
                        Append(good_splits, s), final_chunks)
         ELSE SplitLoop(Tail(pieces), new_separators, <<>>,
                        flushed \o (IF new_separators = <<>> THEN <<s>>
                                    ELSE split_text(s, new_separators)))

split_text(text, seps) ==
    LET k == FirstSeparator(text, seps)
        separator == IF k = 0 THEN seps[Len(seps)] ELSE seps[k]
        new_separators == IF k = 0 \/ seps[k] = <<>> THEN <<>>
                          ELSE SubSeq(seps, k + 1, Len(seps))
    IN SplitLoop(split_text_with_regex(text, separator), new_separators,
                 <<>>, <<>>)

\* text_splitter.create_documents([content]): the page_content of each
\* document, in order
create_documents(text) == split_text(text, separators)

(***************************************************************************)
(* What the run shows and does, in order (the log the properties read).    *)
(***************************************************************************)
HttpGet == "requests.get"
ChainInvoke == "chain.invoke"
ErrorNoKey == "st.error: Please enter your Groq API key!"
ErrorScraping == "st.error: Error scraping content"
ErrorAnalyze == "st.error: Error"
SuccessNotice == "st.success: Analysis complete!"
ErrorMessages == {ErrorNoKey, ErrorScraping, ErrorAnalyze}

\* a progress value, as the fraction <<numerator, denominator>>
Frac(n, d) == <<n, d>>
FracLeq(a, b) == a[1] * b[2] <= b[1] * a[2]
FracEq(a, b) == a[1] * b[2] = b[1] * a[2]
\* min(current_progress, 1.0)
MinOne(f) == IF f[1] > f[2] THEN Frac(1, 1) ELSE f

\* the progress computed from i instead of i + 1
ProgressFromIndex(idx, total_splits) ==
    Frac(total_splits + idx, 2 * total_splits)

\* line 156: 0.5 + (0.5 * (i + 1) / total_splits), i counted from 0
current_progress(idx, total_splits) ==
    Frac(total_splits + (idx + 1), 2 * total_splits)

(***************************************************************************)
(* The inputs of a run.                                                    *)
(***************************************************************************)
Urls == {"", "https://example.com"}
ApiKeys == {"", "gsk_key"}
RawAlphabet == {"a", " ", ".", "\n"}
\* soup.get_text(separator='\n', strip=True): no white space at either end
RawTexts == {t \in Strings(RawAlphabet, MaxRaw) : strip(t) = t}
\* what the model may answer (summary['text'])
Responses == { <<"*", " ", "x">>, <<"U+2022", " ", "y", "\n", "-", "z">> }
SummaryAlphabet == {"U+2022", "U+00E2", "-", "*", " ", "\n", "x"}

Init ==
    /\ url \in Urls
    /\ groq_api_key \in ApiKeys
    /\ pc = "idle"
    /\ content = None
    /\ splits = <<>>
    /\ all_summaries = <<>>
    /\ i = 0
    /\ summaries = None
    /\ progress = <<>>
    /\ events = <<>>
    /\ calls = <<>>
    /\ sections = <<>>
    /\ raw_text = None
    /\ download = None

(***************************************************************************)
(* Lines 171-174 and 113-114: the button is enabled only for a non-empty   *)
(* url; the click enters analyze_url, which shows a progress bar at 0.     *)
(***************************************************************************)
Analyze ==
    /\ pc = "idle"
    /\ url # ""
    /\ pc' = "scrape"
    /\ progress' = Append(progress, Frac(0, 1))
    /\ UNCHANGED <<url, groq_api_key, content, splits, all_summaries, i,
                   summaries, events, calls, sections, raw_text, download>>

(***************************************************************************)
(* Lines 117-121 with scrape_content returning the cleaned text: an empty  *)
(* text makes analyze_url return None without a message.                   *)
(***************************************************************************)
ScrapeContentOk ==
    /\ pc = "scrape"
    /\ \E raw \in RawTexts :
         LET text == clean_text(raw)
         IN /\ content' = Some(text)
            /\ IF text = <<>>
               THEN /\ summaries' = None
                    /\ pc' = "main"
                    /\ UNCHANGED progress
               ELSE /\ pc' = "split"
                    /\ progress' = Append(progress, Frac(1, 4))
                    /\ UNCHANGED summaries
    /\ events' = Append(events, HttpGet)
    /\ UNCHANGED <<url, groq_api_key, splits, all_summaries, i, calls,
                   sections, raw_text, download>>

(***************************************************************************)
(* Lines 89-91 and 119-120: requests.get, raise_for_status or the parser   *)
(* raises; scrape_content reports it and returns None.                     *)
(***************************************************************************)
ScrapeContentFail ==
    /\ pc = "scrape"
    /\ events' = events \o <<HttpGet, ErrorScraping>>
    /\ content' = None
    /\ summaries' = None
    /\ pc' = "main"
    /\ UNCHANGED <<url, groq_api_key, splits, all_summaries, i, progress,
                   calls, sections, raw_text, download>>

(***************************************************************************)
(* Lines 123-131.                                                          *)
(***************************************************************************)
SplitText ==
    /\ pc = "split"
    /\ splits' = create_documents(content.v)
    /\ progress' = Append(progress, Frac(1, 2))
    /\ pc' = "setup"
    /\ UNCHANGED <<url, groq_api_key, content, all_summaries, i, summaries,
                   events, calls, sections, raw_text, download>>

(***************************************************************************)
(* Lines 134-151 with setup_groq (51-61).  st.stop() ends the script run:  *)
(* it raises a control exception that is not an Exception, so the handler  *)
(* on line 165 does not see it and nothing after it executes.              *)
(***************************************************************************)
SetupGroqStop ==
    /\ pc = "setup"
    /\ groq_api_key = ""
    /\ events' = Append(events, ErrorNoKey)
    /\ pc' = "stopped"
    /\ UNCHANGED <<url, groq_api_key, content, splits, all_summaries, i,
                   summaries, progress, calls, sections, raw_text, download>>

SetupGroqOk ==
    /\ pc = "setup"
    /\ groq_api_key # ""
    /\ all_summaries' = <<>>
    /\ i' = 0
    /\ pc' = "loop"
    /\ UNCHANGED <<url, groq_api_key, content, splits, summaries, progress,
                   events, calls, sections, raw_text, download>>

\* the except clause returning what was collected so far
ReturnCollected(collected) == Some(collected)

\* what analyze_url returns from its except clause (line 167)
ExceptReturn(collected) == None

\* the summary inserted at the front of the list
PrependSummary(collected, reply) == <<reply>> \o collected

\* line 155: all_summaries.append(summary['text'])
AppendSummary(collected, reply) == Append(collected, reply)

(***************************************************************************)
(* Lines 153-158: one iteration of the loop, the model answering.          *)
(***************************************************************************)
InvokeOk ==
    /\ pc = "loop"
    /\ i < Len(splits)
    /\ \E reply \in Responses :
         /\ calls' = Append(calls, [text |-> splits[i + 1], ok |-> TRUE,
                                    reply |-> reply])
         /\ all_summaries' = AppendSummary(all_summaries, reply)
    /\ events' = Append(events, ChainInvoke)
    /\ progress' = Append(progress,
                          MinOne(current_progress(i, Len(splits))))
    /\ i' = i + 1
    /\ UNCHANGED <<url, groq_api_key, pc, content, splits, summaries,
                   sections, raw_text, download>>

\* a failed call handled inside the loop, which goes on with the next chunk
InvokeFailContinue ==
    /\ pc = "loop"
    /\ i < Len(splits)
    /\ calls' = Append(calls, [text |-> splits[i + 1], ok |-> FALSE,
                               reply |-> <<>>])
    /\ events' = events \o <<ChainInvoke, ErrorAnalyze>>
    /\ i' = i + 1
    /\ UNCHANGED <<url, groq_api_key, pc, content, splits, all_summaries,
                   summaries, progress, sections, raw_text, download>>

(***************************************************************************)
(* Lines 154 and 165-167: chain.invoke raises; the error is shown and      *)
(* analyze_url returns None.                                               *)
(***************************************************************************)
InvokeFail ==
    /\ pc = "loop"
    /\ i < Len(splits)
    /\ calls' = Append(calls, [text |-> splits[i + 1], ok |-> FALSE,
                               reply |-> <<>>])
    /\ events' = events \o <<ChainInvoke, ErrorAnalyze>>
    /\ summaries' = ExceptReturn(all_summaries)
    /\ pc' = "main"
    /\ UNCHANGED <<url, groq_api_key, content, splits, all_summaries, i,
                   progress, sections, raw_text, download>>

(***************************************************************************)
(* Lines 160-163: the loop is over, analyze_url returns all_summaries.     *)
(***************************************************************************)
ReturnSummaries ==
    /\ pc = "loop"
    /\ i >= Len(splits)
    /\ summaries' = Some(all_summaries)
    /\ pc' = "main"
    /\ UNCHANGED <<url, groq_api_key, content, splits, all_summaries, i,
                   progress, events, calls, sections, raw_text, download>>

\* line 182-183: enumerate(summaries, 1) and "#### Section {i}"
SectionLabel(k) == k

\* lines 182-186: one container per summary
Section(k, summary) ==
    [label |-> SectionLabel(k), blocks |-> format_bullet_points(summary)]

\* lines 189 and 198: "\n\n".join(summaries)
combined_text(list) == join(<<"\n", "\n">>, list)

(***************************************************************************)
(* Lines 176-200: the result is rendered when summaries is truthy; the     *)
(* success notice on line 200 is outside that branch.                      *)
(***************************************************************************)
MainBlock ==
    /\ pc = "main"
    /\ IF Truthy(summaries)
       THEN /\ sections' = [k \in 1..Len(summaries.v) |->
                               Section(k, summaries.v[k])]
            /\ download' = Some(combined_text(summaries.v))
            /\ raw_text' = Some(combined_text(summaries.v))
       ELSE UNCHANGED <<sections, download, raw_text>>
    /\ events' = Append(events, SuccessNotice)
    /\ pc' = "end"
    /\ UNCHANGED <<url, groq_api_key, content, splits, all_summaries, i,
                   summaries, progress, calls>>

Next ==
    \/ Analyze
    \/ ScrapeContentOk
    \/ ScrapeContentFail
    \/ SplitText
    \/ SetupGroqStop
    \/ SetupGroqOk
    \/ InvokeOk
    \/ InvokeFail
    \/ ReturnSummaries
    \/ MainBlock

Spec == Init /\ [][Next]_vars

(***************************************************************************)
(* format_bullet_points over every summary text up to MaxSummaryLen: the   *)
(* run has reached line 176 with one chunk summarized, the answer being    *)
(* any text; the main block renders it.                                    *)
(***************************************************************************)
InitFmt ==
    /\ url = "https://example.com"
    /\ groq_api_key = "gsk_key"
    /\ pc = "main"
    /\ content = Some(<<"a">>)
    /\ splits = << <<"a">> >>
    /\ i = 1
    /\ progress = <<Frac(0, 1), Frac(1, 4), Frac(1, 2), Frac(2, 2)>>
    /\ events = <<HttpGet, ChainInvoke>>
    /\ sections = <<>>
    /\ raw_text = None
    /\ download = None
    /\ \E text \in Strings(SummaryAlphabet, MaxSummaryLen) :
         /\ all_summaries = <<text>>
         /\ summaries = Some(<<text>>)
         /\ calls = <<[text |-> <<"a">>, ok |-> TRUE, reply |-> text]>>

NextFmt == MainBlock

SpecFmt == InitFmt /\ [][NextFmt]_vars

(***************************************************************************)
(* The states of a run the properties speak of.                            *)
(***************************************************************************)
RunEnded == pc \in {"end", "stopped"}
\* analyze_url returned the summaries of every chunk
Done == pc \in {"main", "end"} /\ Truthy(summaries)
\* analyze_url returned nothing, or the script was stopped
Failed == (pc \in {"main", "end"} /\ ~Truthy(summaries)) \/ pc = "stopped"
OutputProduced == sections # <<>> \/ ~raw_text.isNone \/ ~download.isNone
Shown(messages) == {k \in DOMAIN events : events[k] \in messages}
ErrorsShown == Cardinality(Shown(ErrorMessages))
AllCallsOk ==
    /\ Len(calls) = Len(splits)
    /\ \A k \in DOMAIN calls : calls[k].ok /\ calls[k].text = splits[k]
Replies == [k \in DOMAIN calls |-> calls[k].reply]

(***************************************************************************)
(* C1: a run is all-or-nothing.  The sections, the raw text area and the   *)
(* download payload exist only if the fetch succeeded, the extracted text  *)
(* was not empty and every chunk's call succeeded, and then they hold      *)
(* every summary; a run that failed produces none of them, whatever        *)
(* summaries it had collected.                                             *)
(***************************************************************************)
AllOrNothing ==
    /\ OutputProduced =>
         /\ Truthy(content)
         /\ ErrorsShown = 0
         /\ Len(splits) >= 1
         /\ AllCallsOk
         /\ Len(sections) = Len(splits)
         /\ raw_text = Some(combined_text(Replies))
         /\ download = Some(combined_text(Replies))
    /\ Failed => ~OutputProduced

\* a run that ended after a chunk failed with earlier summaries collected
PartialRunEnded ==
    /\ pc = "end"
    /\ all_summaries # <<>>
    /\ \E k \in DOMAIN calls : ~calls[k].ok
    /\ ~OutputProduced

(***************************************************************************)
(* C2: with an empty API key the run issues no HTTP fetch and no model     *)
(* call, and the configuration error is the first event of the run.        *)
(***************************************************************************)
NoNetworkWithoutKey ==
    groq_api_key = "" =>
        /\ \A k \in DOMAIN events : events[k] \notin {HttpGet, ChainInvoke}
        /\ events # <<>> => events[1] = ErrorNoKey

(***************************************************************************)
(* C3: a run that ended in failure shows exactly one error message and no  *)
(* success notice; a run that reached Done shows no error message.         *)
(***************************************************************************)
SingleErrorOutcome ==
    RunEnded =>
        IF Failed
        THEN ErrorsShown = 1 /\ Shown({SuccessNotice}) = {}
        ELSE ErrorsShown = 0

(***************************************************************************)
(* C4: when the extracted text is empty the run ends Failed with an error  *)
(* reported to the user, and no model call is made in that run.            *)
(***************************************************************************)
EmptyContentReported ==
    (RunEnded /\ content = Some(<<>>)) =>
        /\ Failed
        /\ ErrorsShown >= 1
        /\ Shown({ChainInvoke}) = {}

(***************************************************************************)
(* C5: at the end of a successful run with n chunks, n model calls were    *)
(* made, the k-th with chunk k, the summaries list has length n with the   *)
(* k-th summary being the answer to chunk k, and the k-th section is       *)
(* labelled "Section k" and renders that answer.                           *)
(***************************************************************************)
OrderPreserved ==
    (pc = "end" /\ Done) =>
        /\ Cardinality(Shown({ChainInvoke})) = Len(splits)
        /\ AllCallsOk
        /\ Len(summaries.v) = Len(splits)
        /\ \A k \in DOMAIN splits : summaries.v[k] = calls[k].reply
        /\ Len(sections) = Len(splits)
        /\ \A k \in DOMAIN splits :
             /\ sections[k].label = k
             /\ sections[k].blocks = format_bullet_points(calls[k].reply)

\* a finished run of three chunks whose answers differ
ThreeSectionsRendered ==
    /\ pc = "end"
    /\ Done
    /\ Len(splits) >= 3
    /\ summaries.v[1] # summaries.v[2]

(***************************************************************************)
(* C6: a failed call is the last call of its run: the run is Failed from   *)
(* then on and sends no further chunk to the model; Done is reached only   *)
(* with n >= 1 chunks, after all n calls succeeded.                        *)
(***************************************************************************)
FailureIsLastCall ==
    \A k \in DOMAIN calls : ~calls[k].ok => (k = Len(calls) /\ Failed)

DoneAfterLastChunk == Done => (Len(splits) >= 1 /\ AllCallsOk)

\* C6: a failed call is the last call of the run, Failed is absorbing and
\* sends nothing more, and Done needs all n >= 1 calls to have succeeded
AbortOnFailure ==
    /\ [](FailureIsLastCall /\ DoneAfterLastChunk)
    /\ [][Failed => (Failed' /\ calls' = calls)]_vars

\* the second chunk's call failed with a further chunk left unsent
FailedBeforeLastChunk ==
    /\ pc = "end"
    /\ Len(calls) >= 2
    /\ Len(calls) < Len(splits)
    /\ ~calls[Len(calls)].ok

(***************************************************************************)
(* C7: the progress values are fractions in [0,1] that never decrease:     *)
(* 1/4 after fetch and extraction, 1/2 after chunking, 1/2 + j/(2n) after  *)
(* the j-th of n chunks; the value 1 is reported exactly when the last     *)
(* chunk has been summarized.                                              *)
(***************************************************************************)
ProgressReported ==
    LET n == Len(splits)
    IN /\ \A k \in DOMAIN progress :
            /\ FracLeq(Frac(0, 1), progress[k])
            /\ FracLeq(progress[k], Frac(1, 1))
            /\ k > 1 => FracLeq(progress[k - 1], progress[k])
       /\ Len(progress) >= 2 =>
            /\ FracEq(progress[2], Frac(1, 4))
            /\ Truthy(content)
       /\ Len(progress) >= 3 =>
            /\ FracEq(progress[3], Frac(1, 2))
            /\ pc \notin {"idle", "scrape", "split"}
       /\ Len(progress) > 3 => Len(progress) = 3 + Len(all_summaries)
       /\ \A j \in 1..(Len(progress) - 3) :
            FracEq(progress[3 + j], Frac(n + j, 2 * n))
       /\ (\E k \in DOMAIN progress : FracEq(progress[k], Frac(1, 1)))
            <=> (n >= 1 /\ Len(all_summaries) = n
                 /\ pc \in {"loop", "main", "end"})

\* all of three chunks summarized, the last value reported being 1
ProgressComplete ==
    /\ Len(splits) >= 3
    /\ Len(progress) = 3 + Len(splits)
    /\ FracEq(progress[Len(progress)], Frac(1, 1))

(***************************************************************************)
(* C8: the leading-glyph strip is idempotent: applied to the text of a     *)
(* block it has produced, it gives that text again.                        *)
(***************************************************************************)
StripIdempotent ==
    \A k \in DOMAIN sections :
        \A b \in DOMAIN sections[k].blocks :
            StripBulletLine(sections[k].blocks[b]) = sections[k].blocks[b]

(***************************************************************************)
(* C9: format_bullet_points emits one block per non-empty line of the      *)
(* summary, and no block's text begins with a bullet glyph (the bullet,    *)
(* '-' or '*') or with white space.                                        *)
(***************************************************************************)
BulletGlyphs == {"U+2022", "-", "*"}

NonEmptyLines(text) ==
    LET lines == split(strip(text), <<"\n">>)
    IN Cardinality({k \in DOMAIN lines : strip(lines[k]) # <<>>})

\* C9: one block per non-empty line, none beginning with a bullet glyph or
\* white space
BlocksStripped ==
    \A k \in DOMAIN sections :
        /\ Len(sections[k].blocks) = NonEmptyLines(summaries.v[k])
        /\ \A b \in DOMAIN sections[k].blocks :
             LET block == sections[k].blocks[b]
             IN block = <<>> \/ Head(block) \notin BulletGlyphs \cup Whitespace

(***************************************************************************)
(* C10: every chunk the splitter produces, and every chunk sent to the     *)
(* model, is at most chunk_size characters long.                           *)
(***************************************************************************)
ChunkSizeBound ==
    /\ \A k \in DOMAIN splits : Len(splits[k]) <= chunk_size
    /\ \A k \in DOMAIN calls : Len(calls[k].text) <= chunk_size

\* a text that is one unbreakable run longer than chunk_size, cut into
\* chunks that were all sent to the model
UnbreakableRunChunked ==
    /\ Truthy(content)
    /\ Len(content.v) > chunk_size
    /\ \A k \in DOMAIN content.v : content.v[k] = "a"
    /\ Len(splits) >= 2
    /\ Len(calls) = Len(splits)

====
